---- MODULE Spec2Model ----
(***************************************************************************)
(* Model of src/database_ingest.py: the contract ingestion script.         *)
(*                                                                         *)
(* A run of process_contract_data loads a two-column CSV into a dict,      *)
(* cleans four fields, and then talks to the database through              *)
(* ContractHandler: provider lookup, payor lookup-or-create, document      *)
(* insert, contract insert, contract-term inserts.  Every database round   *)
(* trip (a query, or the flush+commit of the session) is one atomic step   *)
(* of the model; the Python code between two round trips belongs to the    *)
(* step that follows it.                                                   *)
(*                                                                         *)
(* The schema is reflected from the live database and is not part of the   *)
(* repository: the tables are modelled with auto-increment keys and no     *)
(* other constraint (no UNIQUE, no NOT NULL), and nothing deletes a row.   *)
(*                                                                         *)
(* Text is a sequence of one-character strings, so that the cleaners can   *)
(* be computed character by character.  Python's None is the empty tuple   *)
(* and a present value v is the one-element tuple <<v>>.                   *)
(***************************************************************************)
EXTENDS Integers, Sequences, FiniteSets

\* ------------------------------------------------------------------ bounds

\* Number of invocations of the script (process_contract_data) in a behaviour.
NumRuns == 2

Runs == 1..NumRuns

\* ------------------------------------------------------ None / present values

None == <<>>
Some(v) == <<v>>
Val(o) == o[1]

\* ------------------------------------------------------------------- text

Digits == <<"0", "1", "2", "3", "4", "5", "6", "7", "8", "9">>
Upper == <<"A", "B", "C", "D", "E", "F", "G", "H", "I", "J", "K", "L", "M",
           "N", "O", "P", "Q", "R", "S", "T", "U", "V", "W", "X", "Y", "Z">>
Lower == <<"a", "b", "c", "d", "e", "f", "g", "h", "i", "j", "k", "l", "m",
           "n", "o", "p", "q", "r", "s", "t", "u", "v", "w", "x", "y", "z">>

IsDigit(c) == \E i \in DOMAIN Digits : Digits[i] = c
DigitVal(c) == (CHOOSE i \in DOMAIN Digits : Digits[i] = c) - 1
AllDigits(s) == \A i \in DOMAIN s : IsDigit(s[i])

\* str.lower() on one character (ASCII letters).
LowerChar(c) ==
    IF \E i \in DOMAIN Upper : Upper[i] = c
    THEN Lower[CHOOSE i \in DOMAIN Upper : Upper[i] = c]
    ELSE c
LowerText(s) == [i \in DOMAIN s |-> LowerChar(s[i])]

\* int() of a non-empty run of decimal digits.
RECURSIVE IntOf(_)
IntOf(s) ==
    IF s = <<>> THEN 0
    ELSE 10 * IntOf(SubSeq(s, 1, Len(s) - 1)) + DigitVal(s[Len(s)])

\* str.replace(ch, ''): every occurrence of the character removed.
RemoveChar(s, ch) == SelectSeq(s, LAMBDA c : c # ch)

\* str.strip() for the blank character.
RECURSIVE StripLeft(_)
StripLeft(s) ==
    IF s # <<>> /\ s[1] = " " THEN StripLeft(Tail(s)) ELSE s
RECURSIVE StripRight(_)
StripRight(s) ==
    IF s # <<>> /\ s[Len(s)] = " "
    THEN StripRight(SubSeq(s, 1, Len(s) - 1)) ELSE s
Strip(s) == StripRight(StripLeft(s))

\* Position of the first occurrence of ch in s, 0 when there is none.
IndexOf(s, ch) ==
    IF \E i \in DOMAIN s : s[i] = ch
    THEN CHOOSE i \in DOMAIN s : s[i] = ch /\ \A j \in 1..(i - 1) : s[j] # ch
    ELSE 0

\* ---------------------------------------------------------- call outcomes

\* A call either returns a value or raises an exception of a named type.
Return(v) == <<"return", v>>
Raise(e) == <<"raise", e>>
Raised(res) == res[1] = "raise"
Result(res) == res[2]

\* ---------------------------------------------------------------- cleaners

MonthAbbr ==
    << <<"j", "a", "n">>, <<"f", "e", "b">>, <<"m", "a", "r">>,
       <<"a", "p", "r">>, <<"m", "a", "y">>, <<"j", "u", "n">>,
       <<"j", "u", "l">>, <<"a", "u", "g">>, <<"s", "e", "p">>,
       <<"o", "c", "t">>, <<"n", "o", "v">>, <<"d", "e", "c">> >>

\* %d of strptime: 3[0-1] | [1-2]\d | 0[1-9] | [1-9] | ' '[1-9]
IsDayField(s) ==
    \/ /\ Len(s) = 1
       /\ IsDigit(s[1]) /\ s[1] # "0"
    \/ /\ Len(s) = 2
       /\ \/ s[1] = "3" /\ s[2] \in {"0", "1"}
          \/ s[1] \in {"1", "2"} /\ IsDigit(s[2])
          \/ s[1] \in {"0", " "} /\ IsDigit(s[2]) /\ s[2] # "0"

DayOf(s) == IF s[1] = " " THEN IntOf(Tail(s)) ELSE IntOf(s)

\* %y of strptime: two digits; 00-68 are 2000-2068, 69-99 are 1969-1999.
IsYearField(s) == Len(s) = 2 /\ AllDigits(s)
YearOf(s) == IF IntOf(s) <= 68 THEN 2000 + IntOf(s) ELSE 1900 + IntOf(s)

\* %b of strptime: an abbreviated month name, matched ignoring case.
IsMonthField(s) == \E m \in DOMAIN MonthAbbr : MonthAbbr[m] = LowerText(s)
MonthOf(s) == CHOOSE m \in DOMAIN MonthAbbr : MonthAbbr[m] = LowerText(s)

DaysInMonth(y, m) ==
    IF m = 2 THEN (IF y % 4 = 0 /\ (y % 100 # 0 \/ y % 400 = 0) THEN 29 ELSE 28)
    ELSE IF m \in {4, 6, 9, 11} THEN 30 ELSE 31

\* datetime.strptime(date_str, '%d-%b-%y'); the time of day is midnight.
strptime_d_b_y(s) ==
    LET i1 == IndexOf(s, "-")
        rest == SubSeq(s, i1 + 1, Len(s))
        i2 == IndexOf(rest, "-")
        dd == SubSeq(s, 1, i1 - 1)
        bb == SubSeq(rest, 1, i2 - 1)
        yy == SubSeq(rest, i2 + 1, Len(rest))
    IN  IF /\ i1 > 0
           /\ i2 > 0
           /\ IsDayField(dd)
           /\ IsMonthField(bb)
           /\ IsYearField(yy)
           /\ DayOf(dd) <= DaysInMonth(YearOf(yy), MonthOf(bb))
        THEN Return([year |-> YearOf(yy), month |-> MonthOf(bb), day |-> DayOf(dd)])
        ELSE Raise("ValueError")

\* clean_effective_date(date_str); strptime of None is a TypeError.
clean_effective_date(date_str) ==
    IF date_str = None THEN Raise("TypeError")
    ELSE strptime_d_b_y(Val(date_str))

\* re.search(r'(\d+)', s): the leftmost, longest run of digits, or no match.
RECURSIVE DigitPrefix(_)
DigitPrefix(s) ==
    IF s # <<>> /\ IsDigit(s[1]) THEN <<s[1]>> \o DigitPrefix(Tail(s)) ELSE <<>>
FirstDigitRun(s) ==
    IF \E i \in DOMAIN s : IsDigit(s[i])
    THEN LET i == CHOOSE k \in DOMAIN s :
                     IsDigit(s[k]) /\ \A j \in 1..(k - 1) : ~IsDigit(s[j])
         IN  Some(DigitPrefix(SubSeq(s, i, Len(s))))
    ELSE None

\* convert_termination_period(termination_period); re.search of None is a
\* TypeError.
convert_termination_period(termination_period) ==
    IF termination_period = None THEN Raise("TypeError")
    ELSE LET match == FirstDigitRun(Val(termination_period))
         IN  Return(IF match # None THEN Some(IntOf(Val(match))) ELSE None)

\* Drop the trailing zeros of a fraction's digits.
RECURSIVE TrimZeros(_)
TrimZeros(s) ==
    IF s # <<>> /\ s[Len(s)] = "0"
    THEN TrimZeros(SubSeq(s, 1, Len(s) - 1)) ELSE s

\* float(text) for plain decimal literals: blanks stripped, an optional sign,
\* digits with at most one point and at least one digit.  The value is kept
\* exactly: sign, integer part, fraction digits without trailing zeros.
\* (Exponents, inf/nan and digit-group underscores are not modelled; no text
\* of MoneyTexts uses them.)
float(text) ==
    LET t == Strip(text)
        signed == t # <<>> /\ t[1] \in {"+", "-"}
        body == IF signed THEN Tail(t) ELSE t
        p == IndexOf(body, ".")
        ip == IF p = 0 THEN body ELSE SubSeq(body, 1, p - 1)
        fp == IF p = 0 THEN <<>> ELSE SubSeq(body, p + 1, Len(body))
    IN  IF AllDigits(ip) /\ AllDigits(fp) /\ Len(ip) + Len(fp) > 0
        THEN Return([neg |-> signed /\ t[1] = "-",
                     units |-> IntOf(ip),
                     frac |-> TrimZeros(fp)])
        ELSE Raise("ValueError")

\* Mutant of clean_money_value: the ValueError is swallowed and None returned.
clean_money_value_lenient(money_str) ==
    IF money_str = None THEN Raise("AttributeError")
    ELSE LET res == float(RemoveChar(RemoveChar(Val(money_str), "$"), ","))
         IN  IF Raised(res) THEN Return(None) ELSE res

\* clean_money_value(money_str); None has no replace(): AttributeError.
clean_money_value(money_str) ==
    IF money_str = None THEN Raise("AttributeError")
    ELSE float(RemoveChar(RemoveChar(Val(money_str), "$"), ","))

\* ------------------------------------------------------------ dictionaries

\* A Python dict: a sequence of <<key, value>> pairs in insertion order, the
\* keys distinct.  A value is None or Some(text).
Keys(d) == {d[i][1] : i \in DOMAIN d}
Get(d, k) ==
    IF k \in Keys(d) THEN (d[CHOOSE i \in DOMAIN d : d[i][1] = k])[2] ELSE None

\* d[k] = v: an existing key keeps its position and takes the new value.
Put(d, k, v) ==
    IF k \in Keys(d)
    THEN [i \in DOMAIN d |-> IF d[i][1] = k THEN <<k, v>> ELSE d[i]]
    ELSE Append(d, <<k, v>>)

\* dict(zip(keys, values)) over the rows of the frame.
RECURSIVE DictOfRows(_)
DictOfRows(rows) ==
    IF rows = <<>> THEN <<>>
    ELSE LET last == rows[Len(rows)]
         IN  Put(DictOfRows(SubSeq(rows, 1, Len(rows) - 1)), last[1], last[2])

\* ------------------------------------------------------------------ loader

\* Cells that pandas.read_csv reads as NaN (a part of its default list).
NaCells == {<<>>, <<"N", "A">>, <<"N", "/", "A">>, <<"N", "a", "N">>, <<"n", "a", "n">>, <<"n", "u", "l", "l">>, <<"N", "U", "L", "L">>, <<"N", "o", "n", "e">>}
isna(cell) == cell \in NaCells

\* load_contract_data: the first line is skipped, a NaN value becomes None,
\* and the rows are zipped into a dict.
load_contract_data(csv) ==
    LET df == SubSeq(csv, 2, Len(csv))
        cleaned == [i \in DOMAIN df |->
                       <<df[i][1], IF isna(df[i][2]) THEN None ELSE Some(df[i][2])>>]
    IN  DictOfRows(cleaned)

\* ------------------------------------------------------------ the splitter

\* The keys of the dict literal contract_essential_terms.
EssentialTermKeys ==
    {"effective_date", "payor_name", "termination_period", "stop_loss_threshold"}

\* {key: value for key, value in contract_info.items()
\*      if key not in contract_essential_terms and key != 'PDF_filename'}
ExtraTerms(contract_info) ==
    SelectSeq(contract_info,
              LAMBDA kv : kv[1] \notin EssentialTermKeys /\ kv[1] # "PDF_filename")

\* Mutant of StagedTerms: the test "value is not None" is missing.
StagedTerms_all(terms) == terms

\* The pairs add_contract_terms makes rows of: those whose value is not None.
StagedTerms(terms) == SelectSeq(terms, LAMBDA kv : kv[2] # None)

\* ------------------------------------------------------------------ inputs

T_Header == <<"V", "a", "l", "u", "e">>
T_01Jan24 == <<"0", "1", "-", "J", "a", "n", "-", "2", "4">>
T_IsoDate == <<"2", "0", "2", "4", "-", "0", "1", "-", "0", "1">>
T_Acme == <<"A", "c", "m", "e", " ", "H", "e", "a", "l", "t", "h">>
T_Beta == <<"B", "e", "t", "a">>
T_90days == <<"9", "0", " ", "d", "a", "y", "s">>
T_AtWill == <<"a", "t", " ", "w", "i", "l", "l">>
T_50000 == <<"$", "5", "0", ",", "0", "0", "0">>
T_abc == <<"a", "b", "c">>
T_doc == <<"d", "o", "c", ".", "p", "d", "f">>
T_500 == <<"$", "5", "0", "0">>
T_20 == <<"$", "2", "0">>
T_ABC_Healthcare == <<"A", "B", "C", " ", "H", "e", "a", "l", "t", "h", "c", "a", "r", "e">>

DateTexts == {T_01Jan24, T_IsoDate, <<>>}
PayorTexts == {T_Acme, T_Beta}
PeriodTexts == {T_90days, T_AtWill}
MoneyTexts == {T_50000, T_abc}
ExtraRows ==
    { << <<"Deductible", T_500>> >>,
      << <<"Deductible", T_500>>, <<"Copay", <<>> >> >>,
      << <<"Deductible", T_500>>, <<"Copay", T_20>> >>,
      << <<"Copay", <<>> >>, <<"payor_name", T_Beta>> >>,
      <<>> }

Csv(date, payor_name, period, money, extra) ==
    << <<"Key", T_Header>>,
       <<"Effective Date", date>>,
       <<"Payor Name", payor_name>>,
       <<"Termination Notice Period", period>>,
       <<"Stop Loss Threshold", money>>,
       <<"PDF_filename", T_doc>> >> \o extra

\* The end-to-end scenario's file.
ScenarioCsv == Csv(T_01Jan24, T_Acme, T_90days, T_50000, << <<"Deductible", T_500>> >>)

\* The files a run may be given: the scenario, varied one field at a time.
CsvFiles ==
    {ScenarioCsv}
    \cup {Csv(d, T_Acme, T_90days, T_50000, << <<"Deductible", T_500>> >>) : d \in DateTexts}
    \cup {Csv(T_01Jan24, p, T_90days, T_50000, << <<"Deductible", T_500>> >>) : p \in PayorTexts}
    \cup {Csv(T_01Jan24, T_Acme, t, T_50000, << <<"Deductible", T_500>> >>) : t \in PeriodTexts}
    \cup {Csv(T_01Jan24, T_Acme, T_90days, m, << <<"Deductible", T_500>> >>) : m \in MoneyTexts}
    \cup {Csv(T_01Jan24, T_Acme, T_90days, T_50000, e) : e \in ExtraRows}

\* The files given to runs that overlap in time.
ConcCsvFiles ==
    {Csv(T_01Jan24, p, T_90days, T_50000, <<>>) : p \in PayorTexts}

\* ------------------------------------------------------------------- state

VARIABLES
    \* The rows of the five tables, in insertion order (self.Base.classes.*).
    Healthcare_Provider, Payor, Document, Contract, Contract_Terms,
    \* Per run: the position in process_contract_data, the exception that
    \* ended it, and its local variables.
    pc, error, contract_info, contract_essential_terms, file_path,
    contract_terms, provider, payor, document, contract

tables == <<Healthcare_Provider, Payor, Document, Contract, Contract_Terms>>
locals == <<contract_info, contract_essential_terms, file_path, contract_terms,
            provider, payor, document, contract>>
vars == <<tables, pc, error, locals>>

\* A run is between its first statement and its end.
Active(r) == pc[r] \notin {"idle", "done", "failed"}

\* The store before the first run: the provider "ABC Healthcare" was added
\* by hand or not, and the payors table is empty or holds one payor.
Init ==
    /\ Healthcare_Provider \in
           {<<>>, <<[provider_id |-> 1, name |-> Some(T_ABC_Healthcare)]>>}
    /\ Payor \in {<<>>, <<[payor_id |-> 1, name |-> Some(T_Acme)]>>}
    /\ Document = <<>>
    /\ Contract = <<>>
    /\ Contract_Terms = <<>>
    /\ pc = [r \in Runs |-> "idle"]
    /\ error = [r \in Runs |-> None]
    /\ contract_info = [r \in Runs |-> <<>>]
    /\ contract_essential_terms = [r \in Runs |-> None]
    /\ file_path = [r \in Runs |-> None]
    /\ contract_terms = [r \in Runs |-> <<>>]
    /\ provider = [r \in Runs |-> None]
    /\ payor = [r \in Runs |-> None]
    /\ document = [r \in Runs |-> None]
    /\ contract = [r \in Runs |-> None]

\* The identity an auto-increment key assigns to the next row of a table
\* (no row is ever deleted).
NextId(table) == Len(table) + 1

\* ----------------------------------------------------------------- actions

\* process_contract_data up to the first database call: load the file, clean
\* the essential terms in the order of the dict literal, take the file path,
\* compute the extra terms, open the session.  The first cleaner that raises
\* ends the run.
Start(r, csv) ==
    LET info == load_contract_data(csv)
        ed == clean_effective_date(Get(info, "Effective Date"))
        tp == convert_termination_period(Get(info, "Termination Notice Period"))
        sl == clean_money_value(Get(info, "Stop Loss Threshold"))
        raised == IF Raised(ed) THEN Some(Result(ed))
                  ELSE IF Raised(tp) THEN Some(Result(tp))
                  ELSE IF Raised(sl) THEN Some(Result(sl))
                  ELSE None
    IN  /\ pc[r] = "idle"
        /\ \A q \in Runs : q < r => pc[q] # "idle"
        /\ contract_info' = [contract_info EXCEPT ![r] = info]
        /\ IF raised # None
           THEN /\ pc' = [pc EXCEPT ![r] = "failed"]
                /\ error' = [error EXCEPT ![r] = raised]
                /\ UNCHANGED <<contract_essential_terms, file_path, contract_terms>>
           ELSE /\ pc' = [pc EXCEPT ![r] = "get_healthcare_provider"]
                /\ contract_essential_terms' =
                       [contract_essential_terms EXCEPT ![r] =
                           Some([effective_date |-> Result(ed),
                                 payor_name |-> Get(info, "Payor Name"),
                                 termination_period |-> Result(tp),
                                 stop_loss_threshold |-> Result(sl)])]
                /\ file_path' = [file_path EXCEPT ![r] = Get(info, "PDF_filename")]
                /\ contract_terms' = [contract_terms EXCEPT ![r] = ExtraTerms(info)]
                /\ UNCHANGED error
        /\ UNCHANGED <<tables, provider, payor, document, contract>>

\* The script run on its own: no other run is in progress.
StartAlone(r) ==
    /\ \A q \in Runs : ~Active(q)
    /\ \E csv \in CsvFiles : Start(r, csv)

\* The script started while other runs may be in progress.
StartOverlapping(r) ==
    \E csv \in ConcCsvFiles : Start(r, csv)

\* Query.first(): one of the matching rows, or None when there is none (the
\* query has no ORDER BY).
First(rows) == IF rows = {} THEN {None} ELSE {Some(row) : row \in rows}

Rows(table) == {table[i] : i \in DOMAIN table}

\* handler.get_healthcare_provider("ABC Healthcare")
get_healthcare_provider(r) ==
    /\ pc[r] = "get_healthcare_provider"
    /\ \E found \in First({p \in Rows(Healthcare_Provider) :
                              p.name = Some(T_ABC_Healthcare)}) :
           provider' = [provider EXCEPT ![r] = found]
    /\ pc' = [pc EXCEPT ![r] = "get_or_create_payor"]
    /\ UNCHANGED <<tables, error, contract_info, contract_essential_terms,
                   file_path, contract_terms, payor, document, contract>>

\* Mutant of PayorMatches: the comparison is rendered as "name = NULL", which
\* no row with a name satisfies.
PayorMatches_none(payor_name) ==
    {p \in Rows(Payor) : p.name = payor_name /\ p.name = None}

\* The rows the payor query of get_or_create_payor matches.
PayorMatches(payor_name) == {p \in Rows(Payor) : p.name = payor_name}

\* Mutant of get_or_create_payor: the test "if not payor" is missing, the
\* payor is created whatever the query found.
get_or_create_payor_no_test(r) ==
    /\ pc[r] = "get_or_create_payor"
    /\ \E found \in First({p \in Rows(Payor) :
                              p.name = Val(contract_essential_terms[r]).payor_name}) :
           /\ payor' = [payor EXCEPT ![r] = found]
           /\ pc' = [pc EXCEPT ![r] = "create_payor"]
    /\ UNCHANGED <<tables, error, contract_info, contract_essential_terms,
                   file_path, contract_terms, provider, document, contract>>

\* get_or_create_payor, the query and the test of its result.
get_or_create_payor(r) ==
    /\ pc[r] = "get_or_create_payor"
    /\ \E found \in First(PayorMatches(Val(contract_essential_terms[r]).payor_name)) :
           /\ payor' = [payor EXCEPT ![r] = found]
           /\ pc' = [pc EXCEPT ![r] =
                        IF found = None THEN "create_payor" ELSE "add_document"]
    /\ UNCHANGED <<tables, error, contract_info, contract_essential_terms,
                   file_path, contract_terms, provider, document, contract>>

\* get_or_create_payor, the branch that adds and commits a new payor.
create_payor(r) ==
    LET new == [payor_id |-> NextId(Payor),
                name |-> Val(contract_essential_terms[r]).payor_name]
    IN  /\ pc[r] = "create_payor"
        /\ Payor' = Append(Payor, new)
        /\ payor' = [payor EXCEPT ![r] = Some(new)]
        /\ pc' = [pc EXCEPT ![r] = "add_document"]
        /\ UNCHANGED <<Healthcare_Provider, Document, Contract, Contract_Terms,
                       error, contract_info, contract_essential_terms,
                       file_path, contract_terms, provider, document, contract>>

\* handler.add_document(file_path)
add_document(r) ==
    LET new == [document_id |-> NextId(Document), file_path |-> file_path[r]]
    IN  /\ pc[r] = "add_document"
        /\ Document' = Append(Document, new)
        /\ document' = [document EXCEPT ![r] = Some(new)]
        /\ pc' = [pc EXCEPT ![r] = "add_contract"]
        /\ UNCHANGED <<Healthcare_Provider, Payor, Contract, Contract_Terms,
                       error, contract_info, contract_essential_terms,
                       file_path, contract_terms, provider, payor, contract>>

\* The contract row add_contract builds for run r, given the provider's
\* identity.
ContractRow(r, provider_id) ==
    LET terms == Val(contract_essential_terms[r])
    IN  [contract_id |-> NextId(Contract),
         effective_date |-> terms.effective_date,
         payor_id |-> Val(payor[r]).payor_id,
         provider_id |-> provider_id,
         document_id |-> Val(document[r]).document_id,
         termination_notice_period |-> terms.termination_period,
         stop_loss_threshold |-> terms.stop_loss_threshold]

\* Mutant of add_contract: an absent provider is passed on as a NULL
\* provider_id (written 0, which no auto-increment key is).
add_contract_null_provider(r) ==
    LET new == ContractRow(r, IF provider[r] = None THEN 0
                              ELSE Val(provider[r]).provider_id)
    IN  /\ pc[r] = "add_contract"
        /\ Contract' = Append(Contract, new)
        /\ contract' = [contract EXCEPT ![r] = Some(new)]
        /\ pc' = [pc EXCEPT ![r] = "add_contract_terms"]
        /\ UNCHANGED <<Healthcare_Provider, Payor, Document, Contract_Terms,
                       error, contract_info, contract_essential_terms,
                       file_path, contract_terms, provider, payor, document>>

\* Mutant of add_contract: the AttributeError is handled by deleting the
\* document the run had committed.
add_contract_rollback(r) ==
    /\ pc[r] = "add_contract"
    /\ IF provider[r] = None
       THEN /\ pc' = [pc EXCEPT ![r] = "failed"]
            /\ error' = [error EXCEPT ![r] = Some("AttributeError")]
            /\ Document' = SelectSeq(Document, LAMBDA d : d # Val(document[r]))
            /\ UNCHANGED <<Contract, contract>>
       ELSE LET new == ContractRow(r, Val(provider[r]).provider_id)
            IN  /\ Contract' = Append(Contract, new)
                /\ contract' = [contract EXCEPT ![r] = Some(new)]
                /\ pc' = [pc EXCEPT ![r] = "add_contract_terms"]
                /\ UNCHANGED <<error, Document>>
    /\ UNCHANGED <<Healthcare_Provider, Payor, Contract_Terms,
                   contract_info, contract_essential_terms, file_path,
                   contract_terms, provider, payor, document>>

\* handler.add_contract(contract_essential_terms, payor.payor_id,
\* provider.provider_id, document.document_id): the arguments are evaluated
\* first, and provider.provider_id of None is an AttributeError.  (created_at,
\* the wall clock's reading, is not kept.)
add_contract(r) ==
    /\ pc[r] = "add_contract"
    /\ IF provider[r] = None
       THEN /\ pc' = [pc EXCEPT ![r] = "failed"]
            /\ error' = [error EXCEPT ![r] = Some("AttributeError")]
            /\ UNCHANGED <<Contract, contract>>
       ELSE LET new == ContractRow(r, Val(provider[r]).provider_id)
            IN  /\ Contract' = Append(Contract, new)
                /\ contract' = [contract EXCEPT ![r] = Some(new)]
                /\ pc' = [pc EXCEPT ![r] = "add_contract_terms"]
                /\ UNCHANGED error
    /\ UNCHANGED <<Healthcare_Provider, Payor, Document, Contract_Terms,
                   contract_info, contract_essential_terms, file_path,
                   contract_terms, provider, payor, document>>

\* Mutant of TermRows: the loop is left after the first staged row.
TermRows_first_only(contract_id, terms, first_id) ==
    LET staged == StagedTerms(terms)
    IN  [i \in DOMAIN staged \cap {1} |->
            [id |-> first_id + i - 1,
             contract_id |-> contract_id,
             term_name |-> staged[i][1],
             term_value |-> staged[i][2]]]

\* The rows add_contract_terms stages for a contract, numbered from the
\* table's next identity on.
TermRows(contract_id, terms, first_id) ==
    LET staged == StagedTerms(terms)
    IN  [i \in DOMAIN staged |->
            [id |-> first_id + i - 1,
             contract_id |-> contract_id,
             term_name |-> staged[i][1],
             term_value |-> staged[i][2]]]

\* handler.add_contract_terms(contract.contract_id, contract_terms): the
\* loop stages the rows and the one commit after it writes them all.
add_contract_terms(r) ==
    /\ pc[r] = "add_contract_terms"
    /\ Contract_Terms' =
           Contract_Terms \o TermRows(Val(contract[r]).contract_id,
                                      contract_terms[r], NextId(Contract_Terms))
    /\ pc' = [pc EXCEPT ![r] = "done"]
    /\ UNCHANGED <<Healthcare_Provider, Payor, Document, Contract, error, locals>>

\* The steps of a run after its start.
Step(r) ==
    \/ get_healthcare_provider(r)
    \/ get_or_create_payor(r)
    \/ create_payor(r)
    \/ add_document(r)
    \/ add_contract(r)
    \/ add_contract_terms(r)

\* Runs executed one after another.
Next == \E r \in Runs : StartAlone(r) \/ Step(r)
Spec == Init /\ [][Next]_vars

\* Runs that may overlap in time.
NextOverlapping == \E r \in Runs : StartOverlapping(r) \/ Step(r)
SpecOverlapping == Init /\ [][NextOverlapping]_vars

\* ------------------------------------------------- vocabulary of the claims

\* The keys process_contract_data reads by name from contract_info.
EssentialKeys ==
    {"Effective Date", "Payor Name", "Termination Notice Period",
     "Stop Loss Threshold"}
RecognizedKeys == EssentialKeys \cup {"PDF_filename"}

IsPrefix(s, t) == Len(s) <= Len(t) /\ SubSeq(t, 1, Len(s)) = s

\* The run got past the cleaners (contract_essential_terms is bound).
Cleaned(r) == contract_essential_terms[r] # None
PayorName(r) == Val(contract_essential_terms[r]).payor_name

\* get_or_create_payor has returned in run r.
PayorResolved(r) ==
    pc[r] \in {"add_document", "add_contract", "add_contract_terms", "done"}
    \/ (pc[r] = "failed" /\ Cleaned(r))

\* The contract-term rows of the contract run r created.
TermsOf(r) ==
    {t \in Rows(Contract_Terms) : t.contract_id = Val(contract[r]).contract_id}

PayorNamesUnique ==
    \A p, q \in Rows(Payor) : p.name = q.name => p = q

\* ------------------------------------------------------------------ claims

\* C1: a completed run has added a document row with the file's
\* PDF_filename, a contract row referencing that document, the resolved payor
\* and the provider with the cleaned values, and exactly one contract-term row
\* for each input key outside the five recognized keys whose value is not
\* absent (for the scenario file: the single row ("Deductible", "$500")).
C1_EndToEnd ==
    \A r \in Runs : pc[r] = "done" =>
        LET info == contract_info[r]
            expected == {i \in DOMAIN info :
                            info[i][1] \notin RecognizedKeys /\ info[i][2] # None}
            c == Val(contract[r])
        IN  /\ Val(document[r]) \in Rows(Document)
            /\ Val(document[r]).file_path = Get(info, "PDF_filename")
            /\ c \in Rows(Contract)
            /\ c.document_id = Val(document[r]).document_id
            /\ c.payor_id = Val(payor[r]).payor_id
            /\ c.provider_id = Val(provider[r]).provider_id
            /\ Cardinality(TermsOf(r)) = Cardinality(expected)
            /\ {<<t.term_name, t.term_value>> : t \in TermsOf(r)}
                   = {info[i] : i \in expected}

\* C2: the extra-terms mapping a run computes has exactly the input keys
\* minus the four essential keys minus "PDF_filename", each with its input
\* value.
C2_ExtraTermsAreTheRest ==
    \A r \in Runs : Cleaned(r) =>
        /\ Keys(contract_terms[r]) = Keys(contract_info[r]) \ RecognizedKeys
        /\ \A k \in Keys(contract_terms[r]) :
               Get(contract_terms[r], k) = Get(contract_info[r], k)

\* C3: with runs executed one after another, get_or_create_payor decides to
\* insert only when no payor row has the name; an insert adds exactly one row,
\* with that name and a fresh identity; once it has returned, the run holds a
\* row of the table with that name; and no two payor rows share a name.
C3_GetOrCreatePayor ==
    /\ [](\A r \in Runs :
            /\ pc[r] = "create_payor" => PayorMatches(PayorName(r)) = {}
            /\ PayorResolved(r) =>
                   /\ payor[r] # None
                   /\ Val(payor[r]) \in Rows(Payor)
                   /\ Val(payor[r]).name = PayorName(r)
                   /\ Val(payor[r]).payor_id >= 1)
    /\ []PayorNamesUnique
    /\ [][Payor' # Payor =>
            /\ Len(Payor') = Len(Payor) + 1
            /\ IsPrefix(Payor, Payor')
            /\ \A p \in Rows(Payor) :
                   /\ p.name # Payor'[Len(Payor')].name
                   /\ p.payor_id # Payor'[Len(Payor')].payor_id]_vars

\* C3 witness: one run has created the payor "Beta" (never in the initial
\* store) and a later run with the same name was given that row without
\* creating one.
C3_Witness ==
    \E r, q \in Runs :
        /\ r # q
        /\ PayorResolved(r) /\ PayorResolved(q)
        /\ PayorName(r) = PayorName(q)
        /\ PayorName(r) = Some(T_Beta)
        /\ payor[r] = payor[q]
        /\ Cardinality(PayorMatches(Some(T_Beta))) = 1

\* C4: every contract row references a payor row, a provider row and a
\* document row of the store, none of the three references is absent, and
\* every contract-term row references a contract row of the store.
C4_References ==
    /\ \A c \in Rows(Contract) :
           /\ \E p \in Rows(Payor) : p.payor_id = c.payor_id
           /\ \E h \in Rows(Healthcare_Provider) : h.provider_id = c.provider_id
           /\ \E d \in Rows(Document) : d.document_id = c.document_id
           /\ c.payor_id >= 1 /\ c.provider_id >= 1 /\ c.document_id >= 1
    /\ \A t \in Rows(Contract_Terms) :
           \E c \in Rows(Contract) : c.contract_id = t.contract_id

\* C4 witness: a contract with terms is in the store and another run was
\* aborted.
C4_Witness ==
    /\ Contract # <<>>
    /\ Contract_Terms # <<>>
    /\ \E r \in Runs : pc[r] = "failed"

\* C5: a run whose provider lookup returned no result stops there: it has
\* created no document, no contract, and no payor.
C5_StopsAtProviderStep ==
    \A r \in Runs :
        (provider[r] = None
         /\ pc[r] \notin {"idle", "get_healthcare_provider"} /\ Cleaned(r)) =>
            /\ document[r] = None
            /\ contract[r] = None
            /\ pc[r] \notin {"create_payor", "add_document", "add_contract",
                             "add_contract_terms", "done"}

\* C6: no contract-term row has an absent term_value, and a completed run has
\* added exactly one row (contract_id, name, value) per pair of its extra
\* terms whose value is not absent and none for the others.
C6_NoAbsentTermValue ==
    /\ \A t \in Rows(Contract_Terms) : t.term_value # None
    /\ \A r \in Runs : pc[r] = "done" =>
           LET present == {i \in DOMAIN contract_terms[r] :
                              contract_terms[r][i][2] # None}
           IN  /\ Cardinality(TermsOf(r)) = Cardinality(present)
               /\ {<<t.term_name, t.term_value>> : t \in TermsOf(r)}
                      = {contract_terms[r][i] : i \in present}

\* C6 witness: a completed run whose extra terms held an absent value and a
\* present one.
C6_Witness ==
    \E r \in Runs :
        /\ pc[r] = "done"
        /\ \E i, j \in DOMAIN contract_terms[r] :
               /\ contract_terms[r][i][2] = None
               /\ contract_terms[r][j][2] # None
               /\ contract_terms[r][j][1] = "Deductible"

\* C7: with overlapping runs two payor rows can carry one name, and whenever
\* two do, each of them is the row of a different run that resolved that name
\* (so neither was in the store before the runs, and a single run never makes
\* a duplicate).
C7_DuplicatesNeedTwoRuns ==
    \A p, q \in Rows(Payor) :
        (p # q /\ p.name = q.name) =>
            \E r, s \in Runs :
                /\ r # s
                /\ Cleaned(r) /\ Cleaned(s)
                /\ PayorName(r) = p.name /\ PayorName(s) = p.name
                /\ payor[r] = Some(p)
                /\ payor[s] = Some(q)

\* C7 witness: two payor rows with the same name.
C7_Witness == ~PayorNamesUnique

\* C8: every step leaves every row of the payors, documents, contracts and
\* contract_terms tables in place and unchanged (rows are only appended) and
\* leaves the providers table as it is.
C8_RowsOnlyAppended ==
    [][/\ IsPrefix(Payor, Payor')
       /\ IsPrefix(Document, Document')
       /\ IsPrefix(Contract, Contract')
       /\ IsPrefix(Contract_Terms, Contract_Terms')
       /\ Healthcare_Provider' = Healthcare_Provider]_vars

\* C8 witness: a run was aborted at add_contract and the document row and the
\* payor row it committed before are in the store.
C8_Witness ==
    \E r \in Runs :
        /\ pc[r] = "failed"
        /\ error[r] = Some("AttributeError")
        /\ document[r] # None /\ Val(document[r]) \in Rows(Document)
        /\ payor[r] # None /\ Val(payor[r]) \in Rows(Payor)

TotalRows == Len(Payor) + Len(Document) + Len(Contract) + Len(Contract_Terms)

\* C9 as stated: every commit (every step) makes at most one row durable.
C9_OneInsertPerCommit == [][TotalRows' <= TotalRows + 1]_vars

\* C9 as amended: a commit of get_or_create_payor, add_document or
\* add_contract makes at most one row durable; the single commit of
\* add_contract_terms writes to contract_terms only and makes durable one
\* row per extra term whose value is not absent, however many there are.
C9_OneCommitPerCall ==
    [][/\ (Len(Payor') + Len(Document') + Len(Contract'))
              <= (Len(Payor) + Len(Document) + Len(Contract)) + 1
       /\ \A r \in Runs :
              (pc[r] = "add_contract_terms" /\ pc'[r] = "done") =>
                  /\ <<Payor', Document', Contract'>> = <<Payor, Document, Contract>>
                  /\ Len(Contract_Terms') - Len(Contract_Terms) =
                         Cardinality({i \in DOMAIN contract_terms[r] :
                                         contract_terms[r][i][2] # None})
       /\ Contract_Terms' # Contract_Terms =>
              \E r \in Runs : pc[r] = "add_contract_terms" /\ pc'[r] = "done"]_vars

\* C9 witness: a completed run whose one commit wrote two or more term rows.
C9_Witness ==
    \E r \in Runs : pc[r] = "done" /\ Cardinality(TermsOf(r)) >= 2

\* The texts of the inputs on which a cleaner fails.
BadDate(r) == Get(contract_info[r], "Effective Date") \in {None, Some(T_IsoDate)}
BadMoney(r) == Get(contract_info[r], "Stop Loss Threshold") = Some(T_abc)

\* C10: a run whose effective date or stop-loss text is rejected by its
\* cleaner ends with that error having issued no lookup and no insert, and the
\* step that ends it leaves all five tables as they were.
C10_CleaningFailureTouchesNothing ==
    /\ [](\A r \in Runs :
            (pc[r] # "idle" /\ (BadDate(r) \/ BadMoney(r))) =>
                /\ pc[r] = "failed"
                /\ error[r] \in {Some("ValueError"), Some("TypeError")}
                /\ provider[r] = None /\ payor[r] = None
                /\ document[r] = None /\ contract[r] = None)
    /\ [][\A r \in Runs :
            (pc[r] = "idle" /\ pc'[r] = "failed") => tables' = tables]_vars

\* C10 witness: one run ended on a rejected date and another on a rejected
\* amount.
C10_Witness ==
    \E r, q \in Runs :
        /\ pc[r] = "failed" /\ BadDate(r)
        /\ pc[q] = "failed" /\ BadMoney(q) /\ ~BadDate(q)

====
